---- MODULE Spec2Model ----
(***************************************************************************)
(* A model of pssh/libssh2_client.py: the libssh2 based SSHClient.         *)
(*                                                                         *)
(* The client is one cooperative task.  Its program position is pc; every  *)
(* action is one step of the client that holds at most one call into the   *)
(* protocol engine (libssh2), whose answer is drawn nondeterministically,  *)
(* or one event of the remote side.                                        *)
(*                                                                         *)
(*   Spec          the constructor: _connect, startup, auth, open_channel  *)
(*   SpecExec      a constructed client: exec_command calls                *)
(*   SpecStream    SpecExec and the consumption of the read_output         *)
(*                 generators the calls return                             *)
(*   SpecRead      one read_output generator over every payload            *)
(*   SpecReadFair  SpecRead with a caller that drains the generator and a  *)
(*                 remote command that ends                                *)
(***************************************************************************)
EXTENDS Integers, Sequences, FiniteSets

(* ------------------------------ bounds --------------------------------- *)

\* num_retries is drawn from 0..MaxRetries
MaxRetries == 3
\* exec_command calls in one run
MaxExec == 2
\* channels the session opens in one run
MaxChan == 3
\* bytes of a command's stdout payload in SpecRead
MaxLen == 4

(* ------------------------- program constants --------------------------- *)

LIBSSH2_ERROR_EAGAIN == -37
\* the error code _execute looks for in an engine exception's message
CHANNEL_FAILURE == -22
\* sleep(5) between two connect attempts
BACKOFF == 5
\* len(SSHClient.IDENTITIES)
NumIdentities == 3
\* os.linesep
LineSep == "\n"
\* the characters str.strip() removes that occur in the model's payloads
Whitespace == {" ", "\n"}
\* the bytes payloads are made of
Alphabet == {"a", " ", "\n"}

(* ---------------------------- Python values ---------------------------- *)

\* An int, a (size, data) tuple, None: Python's == between values of
\* different types is False, which equality of these records keeps.
IntVal(n) == [kind |-> "int", v |-> n, data |-> <<>>]
TupleVal(n, d) == [kind |-> "tuple", v |-> n, data |-> d]
NoneVal == [kind |-> "none", v |-> 0, data |-> <<>>]
\* an exception raised by the engine; its message holds the error code
RaiseVal(n) == [kind |-> "raise", v |-> n, data |-> <<>>]

\* a result (or the status part of a tuple result) that says "would block"
IsWouldBlock(r) == r.kind \in {"int", "tuple"} /\ r.v = LIBSSH2_ERROR_EAGAIN

Max(a, b) == IF a >= b THEN a ELSE b

(* ------------------------------- strings ------------------------------- *)

\* s[a:b] with 0 <= a, 0-based and half-open as in Python
Slice(s, a, b) == SubSeq(s, a + 1, IF b > Len(s) THEN Len(s) ELSE b)

\* s.find(LineSep, pos): the 0-based index of the first LineSep at or after
\* pos, or -1
Find(s, pos) ==
    LET hits == {i \in pos..(Len(s) - 1) : s[i + 1] = LineSep}
    IN IF hits = {} THEN -1 ELSE CHOOSE i \in hits : \A j \in hits : i <= j

RECURSIVE LStrip(_)
LStrip(s) == IF s # <<>> /\ Head(s) \in Whitespace THEN LStrip(Tail(s)) ELSE s

RECURSIVE RStrip(_)
RStrip(s) ==
    IF s # <<>> /\ s[Len(s)] \in Whitespace
    THEN RStrip(SubSeq(s, 1, Len(s) - 1)) ELSE s

\* str.strip()
Strip(s) == RStrip(LStrip(s))

\* every string of exactly n bytes and of at most n bytes
RECURSIVE StringsOfLen(_)
StringsOfLen(n) ==
    IF n = 0 THEN {<<>>}
    ELSE {Append(s, c) : s \in StringsOfLen(n - 1), c \in Alphabet}

RECURSIVE StringsUpTo(_)
StringsUpTo(n) ==
    IF n = 0 THEN {<<>>} ELSE StringsOfLen(n) \cup StringsUpTo(n - 1)

(* ------------------------------- state --------------------------------- *)

VARIABLES
    pc,             \* position of the client task
    exc,            \* the exception the last call raised to its caller
    pkey,           \* self.pkey is not None
    num_retries,    \* self.num_retries
    idFiles,        \* the IDENTITIES (by index) for which os.path.isfile holds
    retries,        \* _connect's retries argument
    connLog,        \* "c" per sock.connect attempt, "s" per sleep, in order
    slept,          \* total time slept by _connect
    sockBlocking,   \* the socket's blocking mode
    sessBlocking,   \* the session's blocking mode
    handshake,      \* "none", "ok", "failed": what session.startup came to
    authLog,        \* the authentication attempts and what they came to, in order
    idx,            \* _identity_auth's position in IDENTITIES
    sel,            \* the _wait_select of the last client step, if any, with
                    \* the block directions the session reported to it
    lastRet,        \* what _eagain came to in the last client step: the value
                    \* it returned, or the exception that left it
    channel,        \* self.channel (0: not set)
    chans,          \* the engine's channels, by handle
    nExec,          \* exec_command calls started
    cur,            \* the running exec_command's arguments
    results,        \* what each exec_command call returned
    reqs,           \* the kinds of pty and execute requests issued
    observedClosed, \* channels whose .closed was read as true
    gens            \* the read_output generators, by exec_command call

cfgVars == <<pkey, num_retries, idFiles>>
connVars == <<retries, connLog, slept, sockBlocking>>
authVars == <<handshake, authLog, idx, sessBlocking>>
chanVars == <<channel, chans>>
execVars == <<nExec, cur, results, reqs, observedClosed>>
vars == <<pc, exc, cfgVars, connVars, authVars, sel, lastRet,
          chanVars, execVars, gens>>

(* ------------------------------ the engine ----------------------------- *)

\* What a call the client wraps in _eagain can come to: would-block, success,
\* an error code handed back as the result, an exception.
RcError == -1
ScalarAnswers ==
    {IntVal(LIBSSH2_ERROR_EAGAIN), IntVal(0), IntVal(RcError),
     RaiseVal(CHANNEL_FAILURE), RaiseVal(RcError)}

\* session.blockdirections()
BlockDirections == 0..3

\* no _wait_select in this step
NoSelect == [waited |-> FALSE, dir |-> 0, called |-> FALSE, r |-> FALSE, w |-> FALSE]

\* a _wait_select that calls select() whatever the engine reports
WaitSelectAlways(blocked) ==
    [waited |-> TRUE, dir |-> blocked, called |-> TRUE,
     r |-> (blocked % 2) = 1, w |-> ((blocked \div 2) % 2) = 1]

\* _wait_select with the engine reporting `blocked` (dir): whether select()
\* is called, and with the socket in which of readfds and writefds
WaitSelect(blocked) ==
    IF blocked = 0
    THEN [waited |-> TRUE, dir |-> blocked, called |-> FALSE, r |-> FALSE, w |-> FALSE]
    ELSE [waited |-> TRUE, dir |-> blocked, called |-> TRUE,
          r |-> (blocked % 2) = 1, w |-> ((blocked \div 2) % 2) = 1]

\* _eagain's loop condition on the value func returned
EagainRetries(ret) == ret = IntVal(LIBSSH2_ERROR_EAGAIN)

\* One call of func inside _eagain, with answer ret: an exception leaves
\* _eagain; a value the loop condition takes for would-block is followed by
\* _wait_select, and func is called again in the client's next step; any
\* other value is returned.
Retried(ret) == ret.kind # "raise" /\ EagainRetries(ret)
Eagain(ret, blocked) ==
    IF Retried(ret)
    THEN sel' = WaitSelect(blocked) /\ lastRet' = NoneVal
    ELSE /\ blocked = 0
         /\ sel' = NoSelect
         /\ lastRet' = ret

\* a client step that neither waits nor returns from _eagain
Plain == sel' = NoSelect /\ lastRet' = NoneVal

NoChan == [open |-> FALSE, closed |-> FALSE, eofSent |-> FALSE, pty |-> FALSE,
           cmd |-> 0, sent |-> <<>>, rest |-> <<>>, err |-> <<>>]
NoGen == [pc |-> "unborn", remainder |-> <<>>, pos |-> 0, size |-> 0,
          data |-> <<>>, out |-> <<>>]
NoResult == [returned |-> FALSE, chan |-> 0, stderr |-> <<>>, closedAtEntry |-> 0]
NoCmd == [out |-> <<>>, err |-> <<>>, use_pty |-> FALSE]

(* --------------------------- the constructor --------------------------- *)

\* __init__ up to the call of _connect
Init ==
    /\ pc = "connect"
    /\ exc = "none"
    /\ pkey \in BOOLEAN
    /\ num_retries \in 0..MaxRetries
    /\ idFiles \in SUBSET (1..NumIdentities)
    /\ retries = 1
    /\ connLog = <<>>
    /\ slept = 0
    /\ sockBlocking = TRUE
    /\ sessBlocking = FALSE
    /\ handshake = "none"
    /\ authLog = <<>>
    /\ idx = 1
    /\ sel = NoSelect
    /\ lastRet = NoneVal
    /\ channel = 0
    /\ chans = [c \in 1..MaxChan |-> NoChan]
    /\ nExec = 0
    /\ cur = NoCmd
    /\ results = [k \in 1..MaxExec |-> NoResult]
    /\ reqs = {}
    /\ observedClosed = {}
    /\ gens = [k \in 1..MaxExec |-> NoGen]

\* _connect's `while retries < self.num_retries`
RetryAllowedOffByOne(r, n) == r <= n
RetryAllowed(r, n) == r < n

\* One call of _connect: a connect attempt, and on failure either the sleep
\* and the recursive call or the ConnectionErrorException.
Connect ==
    /\ pc = "connect"
    /\ Plain
    /\ UNCHANGED <<cfgVars, authVars, chanVars, execVars, gens>>
    /\ \E ok \in BOOLEAN :
        IF ok
        THEN /\ connLog' = Append(connLog, "c")
             /\ sockBlocking' = FALSE
             /\ pc' = "startup"
             /\ UNCHANGED <<retries, slept, exc>>
        ELSE IF RetryAllowed(retries, num_retries)
        THEN /\ connLog' = connLog \o <<"c", "s">>
             /\ slept' = slept + BACKOFF
             /\ retries' = retries + 1
             /\ sockBlocking' = TRUE
             /\ UNCHANGED <<pc, exc>>
        ELSE /\ connLog' = Append(connLog, "c")
             /\ sockBlocking' = TRUE
             /\ pc' = "raised"
             /\ exc' = "ConnectionErrorException"
             /\ UNCHANGED <<retries, slept>>

\* startup: _eagain(self.session.startup, self.sock); its result is returned
\* to __init__, which drops it.
Startup ==
    /\ pc = "startup"
    /\ UNCHANGED <<cfgVars, connVars, authLog, idx, sessBlocking, chanVars,
                   execVars, gens>>
    /\ \E ret \in ScalarAnswers, blocked \in BlockDirections :
        /\ Eagain(ret, blocked)
        /\ IF ret.kind = "raise"
           THEN /\ pc' = "raised"
                /\ exc' = "EngineException"
                /\ handshake' = "failed"
           ELSE IF Retried(ret)
           THEN UNCHANGED <<pc, exc, handshake>>
           ELSE /\ handshake' = IF ret.v = 0 THEN "ok" ELSE "failed"
                /\ pc' = "auth"
                /\ UNCHANGED exc

\* what an authentication call came to
Outcome(ret) ==
    IF ret.kind = "raise" THEN "raised"
    ELSE IF IsWouldBlock(ret) THEN "pending"
    ELSE IF ret.v = 0 THEN "ok" ELSE "rc_error"

\* the log with the answer ret to a call of strategy s (on identity file f):
\* an attempt is entered at its first call, as pending while the engine says
\* would-block, and with its outcome once it has one
Logged(log, s, f, ret) ==
    IF log # <<>> /\ log[Len(log)] = [s |-> s, f |-> f, r |-> "pending"]
    THEN [log EXCEPT ![Len(log)].r = Outcome(ret)]
    ELSE Append(log, [s |-> s, f |-> f, r |-> Outcome(ret)])

\* auth's `if self.pkey is not None`
UsesExplicitKeyNever == FALSE
UsesExplicitKey == pkey

\* auth with an explicit key: return self._pkey_auth(), which is
\* _eagain(userauth_publickey_fromfile, ...) with the result dropped.
PkeyAuth ==
    /\ pc = "auth"
    /\ UsesExplicitKey
    /\ UNCHANGED <<cfgVars, connVars, handshake, idx, sessBlocking, chanVars,
                   execVars, gens>>
    /\ \E ret \in ScalarAnswers, blocked \in BlockDirections :
        /\ Eagain(ret, blocked)
        /\ authLog' = Logged(authLog, "pkey", 0, ret)
        /\ IF ret.kind = "raise"
           THEN pc' = "raised" /\ exc' = "EngineException"
           ELSE IF Retried(ret)
           THEN UNCHANGED <<pc, exc>>
           ELSE pc' = "open_channel" /\ UNCHANGED exc

\* what session.userauth_agent, called in blocking mode, can come to
AgentAnswers == {IntVal(0), IntVal(RcError), RaiseVal(RcError)}

\* auth's try around _agent_auth: `except Exception` takes the agent attempt
\* for failed, `else` for succeeded
AgentAuthFailedAlways(ret) == TRUE
AgentAuthFailed(ret) == ret.kind = "raise"

\* auth without an explicit key, up to the agent attempt: _agent_auth sets the
\* session blocking, calls userauth_agent and sets it non-blocking again; an
\* exception leaves _agent_auth before the last line and is caught by auth.
AgentAuth ==
    /\ pc = "auth"
    /\ ~UsesExplicitKey
    /\ Plain
    /\ UNCHANGED <<exc, cfgVars, connVars, handshake, chanVars, execVars, gens>>
    /\ \E ret \in AgentAnswers :
        /\ authLog' = Logged(authLog, "agent", 0, ret)
        /\ IF AgentAuthFailed(ret)
           THEN /\ sessBlocking' = TRUE
                /\ idx' = 1
                /\ pc' = "identity"
           ELSE /\ sessBlocking' = FALSE
                /\ pc' = "open_channel"
                /\ UNCHANGED idx

\* One round of _identity_auth's loop over IDENTITIES, or the raise after it.
IdentityAuth ==
    /\ pc = "identity"
    /\ UNCHANGED <<cfgVars, connVars, handshake, sessBlocking, chanVars,
                   execVars, gens>>
    /\ IF idx > NumIdentities
       THEN /\ pc' = "raised"
            /\ exc' = "AuthenticationException"
            /\ Plain
            /\ UNCHANGED <<authLog, idx>>
       ELSE IF idx \notin idFiles
       THEN /\ idx' = idx + 1
            /\ Plain
            /\ UNCHANGED <<pc, exc, authLog>>
       ELSE \E ret \in ScalarAnswers, blocked \in BlockDirections :
            /\ Eagain(ret, blocked)
            /\ authLog' = Logged(authLog, "identity", idx, ret)
            /\ IF ret.kind = "raise"
               THEN idx' = idx + 1 /\ UNCHANGED <<pc, exc>>
               ELSE IF Retried(ret)
               THEN UNCHANGED <<pc, exc, idx>>
               ELSE pc' = "open_channel" /\ UNCHANGED <<exc, idx>>

(* ------------------------------ channels ------------------------------- *)

\* the handle session.open_session() hands out next (0: none left)
FreshChan ==
    IF \E c \in 1..MaxChan : ~chans[c].open
    THEN CHOOSE c \in 1..MaxChan :
            ~chans[c].open /\ \A d \in 1..MaxChan : ~chans[d].open => c <= d
    ELSE 0

\* what session.open_session() can come to: None, a channel, an exception
OpenAnswers ==
    {RaiseVal(RcError), NoneVal}
        \cup (IF FreshChan # 0 THEN {IntVal(FreshChan)} ELSE {})

\* `self.channel = self.open_channel()`: the handle the client holds afterwards
ChannelAfterOpenKeepsOld(old, new) == IF old = 0 THEN new ELSE old
ChannelAfterOpen(old, new) == new

\* where the client goes on once open_channel has returned
AfterOpen(at) ==
    CASE at = "open_channel" -> "ready"
      [] at = "reopen_stale" -> IF cur.use_pty THEN "pty" ELSE "execute"
      [] at = "reopen_22" -> "reexecute"

\* open_channel's `while chan is None`
OpenLoopRunsNever(ret) == FALSE
OpenLoopRuns(ret) == ret = NoneVal

\* One round of open_channel: session.open_session(), and _wait_select when
\* it gave None.  Called by __init__ and, to replace the channel, by _execute.
OpenChannel ==
    /\ pc \in {"open_channel", "reopen_stale", "reopen_22"}
    /\ lastRet' = NoneVal
    /\ UNCHANGED <<cfgVars, connVars, authVars, nExec, results, reqs,
                   observedClosed, gens>>
    /\ \E ret \in OpenAnswers, blocked \in BlockDirections :
        IF ret.kind = "raise"
        THEN /\ blocked = 0
             /\ pc' = IF pc = "open_channel" THEN "raised" ELSE "ready"
             /\ exc' = "EngineException"
             /\ cur' = NoCmd
             /\ sel' = NoSelect
             /\ UNCHANGED chanVars
        ELSE IF OpenLoopRuns(ret)
        THEN /\ sel' = WaitSelect(blocked)
             /\ UNCHANGED <<pc, exc, cur, chanVars>>
        ELSE /\ blocked = 0
             /\ chans' = [chans EXCEPT ![ret.v] = [NoChan EXCEPT !.open = TRUE]]
             /\ channel' = ChannelAfterOpen(channel, ret.v)
             /\ pc' = AfterOpen(pc)
             /\ sel' = NoSelect
             /\ UNCHANGED <<exc, cur>>

Next == Connect \/ Startup \/ PkeyAuth \/ AgentAuth \/ IdentityAuth \/ OpenChannel

Spec == Init /\ [][Next]_vars

(* ----------------------------- exec_command ---------------------------- *)

\* The commands of the tests: `echo me` writes a line to stdout,
\* `echo "me" >&2` writes it to the error stream.
Commands ==
    {[out |-> <<"a", "\n">>, err |-> <<>>], [out |-> <<>>, err |-> <<"a", "\n">>]}

\* A client whose constructor has returned: connected at the first attempt,
\* authenticated with the explicit key of the tests, holding channel 1.
InitExec ==
    /\ pc = "ready"
    /\ exc = "none"
    /\ pkey = TRUE
    /\ num_retries = 1
    /\ idFiles = {}
    /\ retries = 1
    /\ connLog = <<"c">>
    /\ slept = 0
    /\ sockBlocking = FALSE
    /\ sessBlocking = FALSE
    /\ handshake = "ok"
    /\ authLog = <<[s |-> "pkey", f |-> 0, r |-> "ok"]>>
    /\ idx = 1
    /\ sel = NoSelect
    /\ lastRet = NoneVal
    /\ channel = 1
    /\ chans = [c \in 1..MaxChan |-> IF c = 1 THEN [NoChan EXCEPT !.open = TRUE] ELSE NoChan]
    /\ nExec = 0
    /\ cur = NoCmd
    /\ results = [k \in 1..MaxExec |-> NoResult]
    /\ reqs = {}
    /\ observedClosed = {}
    /\ gens = [k \in 1..MaxExec |-> NoGen]

\* exec_command calls _execute, which reads self.channel.closed and, when it
\* is set, goes to replace the channel.
ExecStart ==
    /\ pc = "ready"
    /\ nExec < MaxExec
    /\ nExec' = nExec + 1
    /\ exc' = "none"
    /\ Plain
    /\ UNCHANGED <<cfgVars, connVars, authVars, chanVars, reqs, gens>>
    /\ \E cmd \in Commands, use_pty \in BOOLEAN :
        /\ cur' = [out |-> cmd.out, err |-> cmd.err, use_pty |-> use_pty]
        /\ IF chans[channel].closed
           THEN /\ observedClosed' = observedClosed \cup {channel}
                /\ results' = [results EXCEPT ![nExec + 1].closedAtEntry = channel]
                /\ pc' = "reopen_stale"
           ELSE /\ pc' = IF use_pty THEN "pty" ELSE "execute"
                /\ UNCHANGED <<observedClosed, results>>

\* What channel.pty() and channel.execute(cmd) can come to on channel c: a
\* closed channel accepts no request, and a channel runs one command.
RequestAnswers(c, op) ==
    ScalarAnswers \
        (IF chans[c].closed \/ (op = "execute" /\ chans[c].cmd # 0)
         THEN {IntVal(0)} ELSE {})

\* a request on self.channel, and whether that channel had been seen closed
Request(op) == [op |-> op, stale |-> channel \in observedClosed]

\* `'-22' in ex.message`
IsChannelFailureAlways(ret) == TRUE
IsChannelFailure(ret) == ret.v = CHANNEL_FAILURE

\* The client once _execute has returned: sleep(), then exec_command returns
\* (self.channel, self.host, self.read_output(), iter([]), self.channel).
Returned(k, ch) ==
    /\ results' = [results EXCEPT ![k].returned = TRUE, ![k].chan = ch, ![k].stderr = <<>>]
    /\ gens' = [gens EXCEPT ![k] = [NoGen EXCEPT !.pc = "eof"]]
    /\ cur' = NoCmd
    /\ pc' = "ready"

\* an exception leaves exec_command
Raised ==
    /\ pc' = "ready"
    /\ exc' = "EngineException"
    /\ cur' = NoCmd

\* the channel once the engine has accepted `execute cmd` on it
Started(c) ==
    [chans EXCEPT ![c].cmd = nExec, ![c].sent = cur.out, ![c].rest = cur.out,
                  ![c].err = cur.err]

\* _execute: self._eagain(self.channel.pty)
Pty ==
    /\ pc = "pty"
    /\ reqs' = reqs \cup {Request("pty")}
    /\ UNCHANGED <<cfgVars, connVars, authVars, channel, nExec, results,
                   observedClosed, gens>>
    /\ \E ret \in RequestAnswers(channel, "pty"), blocked \in BlockDirections :
        /\ Eagain(ret, blocked)
        /\ IF ret.kind = "raise"
           THEN IF IsChannelFailure(ret)
                THEN pc' = "reopen_22" /\ UNCHANGED <<exc, cur, chans>>
                ELSE Raised /\ UNCHANGED chans
           ELSE IF Retried(ret)
           THEN UNCHANGED <<pc, exc, cur, chans>>
           ELSE /\ chans' = [chans EXCEPT ![channel].pty = TRUE]
                /\ pc' = "execute"
                /\ UNCHANGED <<exc, cur>>

\* _execute: self._eagain(self.channel.execute, cmd) inside the try
Execute ==
    /\ pc = "execute"
    /\ reqs' = reqs \cup {Request("execute")}
    /\ UNCHANGED <<cfgVars, connVars, authVars, channel, nExec, observedClosed>>
    /\ \E ret \in RequestAnswers(channel, "execute"), blocked \in BlockDirections :
        /\ Eagain(ret, blocked)
        /\ IF ret.kind = "raise"
           THEN IF IsChannelFailure(ret)
                THEN pc' = "reopen_22" /\ UNCHANGED <<exc, cur, chans, results, gens>>
                ELSE Raised /\ UNCHANGED <<chans, results, gens>>
           ELSE IF Retried(ret)
           THEN UNCHANGED <<pc, exc, cur, chans, results, gens>>
           ELSE /\ chans' = IF ret.v = 0 THEN Started(channel) ELSE chans
                /\ Returned(nExec, channel)
                /\ UNCHANGED exc

\* _execute's handler of a -22 exception, after open_channel:
\* self._eagain(self.channel.execute, cmd), outside any try
Reexecute ==
    /\ pc = "reexecute"
    /\ reqs' = reqs \cup {Request("execute")}
    /\ UNCHANGED <<cfgVars, connVars, authVars, channel, nExec, observedClosed>>
    /\ \E ret \in RequestAnswers(channel, "execute"), blocked \in BlockDirections :
        /\ Eagain(ret, blocked)
        /\ IF ret.kind = "raise"
           THEN Raised /\ UNCHANGED <<chans, results, gens>>
           ELSE IF Retried(ret)
           THEN UNCHANGED <<pc, exc, cur, chans, results, gens>>
           ELSE /\ chans' = IF ret.v = 0 THEN Started(channel) ELSE chans
                /\ Returned(nExec, channel)
                /\ UNCHANGED exc

(* --------------------------- the remote side --------------------------- *)

\* the command on channel c has ended: EOF follows its output
RemoteEof(c) ==
    /\ chans[c].open
    /\ chans[c].cmd # 0
    /\ ~chans[c].eofSent
    /\ chans' = [chans EXCEPT ![c].eofSent = TRUE]
    /\ UNCHANGED <<pc, exc, cfgVars, connVars, authVars, sel, lastRet,
                   channel, execVars, gens>>

\* the remote side closes channel c, which ends its stream as well
RemoteClose(c) ==
    /\ chans[c].open
    /\ ~chans[c].closed
    /\ chans' = [chans EXCEPT ![c].closed = TRUE, ![c].eofSent = TRUE]
    /\ UNCHANGED <<pc, exc, cfgVars, connVars, authVars, sel, lastRet,
                   channel, execVars, gens>>

\* exec_command calls on a constructed client, their generators left alone:
\* no step of a generator changes what these actions read.
NextExec ==
    \/ ExecStart \/ OpenChannel \/ Pty \/ Execute \/ Reexecute
    \/ \E c \in 1..MaxChan : RemoteEof(c) \/ RemoteClose(c)

SpecExec == InitExec /\ [][NextExec]_vars

(* ----------------------------- read_output ----------------------------- *)

\* channel.eof(): the remote side has sent EOF and no data is left to read
ChanEof(c) == chans[c].eofSent /\ chans[c].rest = <<>>

\* What channel.read_ex() can come to on channel c: (size, data) with some of
\* the bytes that have arrived, (EAGAIN, "") while none has and more may
\* come, (0, "") at the end of the stream.
ReadAnswers(c) ==
    {TupleVal(n, SubSeq(chans[c].rest, 1, n)) : n \in 1..Len(chans[c].rest)}
        \cup (IF ~chans[c].eofSent THEN {TupleVal(LIBSSH2_ERROR_EAGAIN, <<>>)} ELSE {})
        \cup (IF ChanEof(c) THEN {TupleVal(0, <<>>)} ELSE {})

\* One test of `while _size > 0` and, inside it, one round of
\* `while _pos < _size`: a line is yielded (the generator is suspended inside
\* the loop), or the rest of the chunk is added to remainder and the next
\* chunk is to be read, or the chunk is used up, or nothing was read and the
\* outer loop is to test channel.eof() again.
ScanStep(g) ==
    IF g.size > 0
    THEN IF g.pos < g.size
         THEN LET linesep == Find(g.data, g.pos)
              IN IF linesep > 0
                 THEN [g EXCEPT
                         !.out = Append(@,
                             IF Len(g.remainder) > 0
                             THEN g.remainder \o Strip(Slice(g.data, g.pos, linesep))
                             ELSE Strip(Slice(g.data, g.pos, linesep))),
                         !.remainder = <<>>,
                         !.pos = linesep + 1,
                         !.pc = "yield"]
                 ELSE [g EXCEPT
                         !.remainder = @ \o Slice(g.data, g.pos, Len(g.data)),
                         !.pc = "read"]
         ELSE [g EXCEPT !.pc = "read"]
    ELSE [g EXCEPT !.pc = "eof"]

\* read_output's `while not self.channel.eof()` on channel c: the loop is left
OuterLoopEndsNever(c) == FALSE
OuterLoopEnds(c) == ChanEof(c)

\* The generator at `while not self.channel.eof()`: it ends, and of its frame
\* the model keeps what it has yielded and the remainder it held; or it
\* clears remainder, calls _wait_select, clears _pos and goes to read.
GenEof(k) ==
    /\ pc = "ready"
    /\ gens[k].pc = "eof"
    /\ lastRet' = NoneVal
    /\ UNCHANGED <<pc, exc, cfgVars, connVars, authVars, chanVars, execVars>>
    /\ IF OuterLoopEnds(channel)
       THEN /\ gens' = [gens EXCEPT ![k] = [NoGen EXCEPT !.pc = "done",
                            !.out = gens[k].out, !.remainder = gens[k].remainder]]
            /\ sel' = NoSelect
       ELSE \E blocked \in BlockDirections :
            /\ gens' = [gens EXCEPT ![k].pc = "read", ![k].remainder = <<>>, ![k].pos = 0]
            /\ sel' = WaitSelect(blocked)

\* The generator at `_size, _data = self._eagain(self.channel.read_ex)`, on
\* either of the two lines that hold it, and from there to its next yield or
\* its next call of the engine.
GenRead(k) ==
    /\ pc = "ready"
    /\ gens[k].pc = "read"
    /\ UNCHANGED <<pc, exc, cfgVars, connVars, authVars, channel, execVars>>
    /\ \E ret \in ReadAnswers(channel), blocked \in BlockDirections :
        /\ Eagain(ret, blocked)
        /\ IF Retried(ret)
           THEN UNCHANGED <<chans, gens>>
           ELSE /\ chans' = [chans EXCEPT ![channel].rest =
                                SubSeq(@, Len(ret.data) + 1, Len(@))]
                /\ gens' = [gens EXCEPT ![k] =
                                ScanStep([@ EXCEPT !.size = ret.v, !.data = ret.data])]

\* The generator resumed after a yield, to its next yield or its next call of
\* the engine.
GenResume(k) ==
    /\ pc = "ready"
    /\ gens[k].pc = "yield"
    /\ gens' = [gens EXCEPT ![k] = ScanStep(gens[k])]
    /\ Plain
    /\ UNCHANGED <<pc, exc, cfgVars, connVars, authVars, chanVars, execVars>>

\* data.splitlines() for data whose line ends are LineSep
RECURSIVE SplitLines(_)
SplitLines(data) ==
    IF data = <<>> THEN <<>>
    ELSE LET i == Find(data, 0)
         IN IF i < 0 THEN <<data>>
            ELSE <<Slice(data, 0, i)>> \o SplitLines(Slice(data, i + 1, Len(data)))

\* read_stderr over the error stream `data`: line.strip() is computed and
\* dropped, the line is yielded as it is.
ReadStderr(data) == SplitLines(data)

\* exec_command calls and the consumption of the generators they return
NextStream ==
    \/ NextExec
    \/ \E k \in 1..MaxExec : GenEof(k) \/ GenRead(k) \/ GenResume(k)

SpecStream == InitExec /\ [][NextStream]_vars

\* A client whose first exec_command, with a pty, has just returned: its
\* command writes `payload` to stdout, and nothing of it has been read.
InitRead ==
    /\ pc = "ready"
    /\ exc = "none"
    /\ pkey = TRUE
    /\ num_retries = 1
    /\ idFiles = {}
    /\ retries = 1
    /\ connLog = <<"c">>
    /\ slept = 0
    /\ sockBlocking = FALSE
    /\ sessBlocking = FALSE
    /\ handshake = "ok"
    /\ authLog = <<[s |-> "pkey", f |-> 0, r |-> "ok"]>>
    /\ idx = 1
    /\ sel = NoSelect
    /\ lastRet = IntVal(0)
    /\ channel = 1
    /\ \E payload \in StringsUpTo(MaxLen) :
        chans = [c \in 1..MaxChan |->
                    IF c = 1
                    THEN [NoChan EXCEPT !.open = TRUE, !.pty = TRUE, !.cmd = 1,
                                        !.sent = payload, !.rest = payload]
                    ELSE NoChan]
    /\ nExec = 1
    /\ cur = NoCmd
    /\ results = [k \in 1..MaxExec |->
                    IF k = 1 THEN [NoResult EXCEPT !.returned = TRUE, !.chan = 1]
                    ELSE NoResult]
    /\ reqs = {[op |-> "pty", stale |-> FALSE], [op |-> "execute", stale |-> FALSE]}
    /\ observedClosed = {}
    /\ gens = [k \in 1..MaxExec |-> IF k = 1 THEN [NoGen EXCEPT !.pc = "eof"] ELSE NoGen]

\* the consumption of one generator while the remote side sends and ends
NextRead ==
    \/ \E k \in 1..MaxExec : GenEof(k) \/ GenRead(k) \/ GenResume(k)
    \/ \E c \in 1..MaxChan : RemoteEof(c) \/ RemoteClose(c)

SpecRead == InitRead /\ [][NextRead]_vars

\* the caller goes on consuming the generator it was handed
Consume == \E k \in 1..MaxExec : GenEof(k) \/ GenRead(k) \/ GenResume(k)

\* the remote command comes to its end, and with it the stream of a channel
\* that runs a command
StreamEnds == \E c \in 1..MaxChan : RemoteEof(c)

\* SpecRead with a caller that drains the generator and a command that ends
SpecReadFair == SpecRead /\ WF_vars(Consume) /\ WF_vars(StreamEnds)

(* ------------------------------- claims -------------------------------- *)

\* the stdout payload of the command of exec_command call k
PayloadOf(k) == chans[results[k].chan].sent

\* the lines read_output yields when the whole payload p arrives in one read
RECURSIVE ScanAll(_)
ScanAll(g) ==
    LET n == ScanStep(g) IN IF n.pc = "yield" THEN ScanAll(n) ELSE n
OneChunkLines(p) ==
    IF p = <<>> THEN <<>>
    ELSE ScanAll([NoGen EXCEPT !.size = Len(p), !.data = p]).out

MultiLine(p) == Cardinality({i \in 1..Len(p) : p[i] = LineSep}) >= 2

\* C1: for a multi-line payload, however the reads cut it into chunks, a
\* drained read_output has yielded the lines it yields when the payload
\* arrives in a single read.
C1_ChunkingIndependent ==
    \A k \in 1..MaxExec :
        (gens[k].pc = "done" /\ MultiLine(PayloadOf(k)))
            => gens[k].out = OneChunkLines(PayloadOf(k))

Attempts == Cardinality({i \in 1..Len(connLog) : connLog[i] = "c"})
Sleeps == Cardinality({i \in 1..Len(connLog) : connLog[i] = "s"})
\* a sleep between each two consecutive attempts and nowhere else
Alternates == \A i \in 1..Len(connLog) : connLog[i] = IF i % 2 = 1 THEN "c" ELSE "s"

\* C2 as stated: when every connect attempt fails, _connect raises
\* ConnectionErrorException after exactly num_retries attempts, with the
\* fixed backoff slept between consecutive attempts and nowhere else.
C2_ExactlyNumRetries ==
    /\ Attempts <= num_retries
    /\ exc = "ConnectionErrorException" =>
          /\ Attempts = num_retries
          /\ Alternates
          /\ Len(connLog) = 2 * Attempts - 1
          /\ slept = BACKOFF * Sleeps

\* C2 amended: the number of attempts is num_retries, and one when
\* num_retries is 0; _connect never makes more and never raises before; the
\* fixed backoff is slept between consecutive attempts and nowhere else.
C2_AttemptsAtLeastOne ==
    /\ Attempts <= Max(1, num_retries)
    /\ Alternates
    /\ slept = BACKOFF * Sleeps
    /\ exc = "ConnectionErrorException" =>
          /\ Attempts = Max(1, num_retries)
          /\ Len(connLog) = 2 * Attempts - 1

C2_Witness ==
    /\ exc = "ConnectionErrorException"
    /\ num_retries = MaxRetries
    /\ Attempts = MaxRetries
    /\ slept = BACKOFF * (MaxRetries - 1)

\* C3: with an explicit key configured, every authentication attempt is the
\* explicit-key one: neither the agent nor an identity file is ever tried.
C3_ExplicitKeyOnly ==
    pkey => \A i \in 1..Len(authLog) : authLog[i].s = "pkey"

C3_Witness ==
    /\ pkey
    /\ pc = "raised"
    /\ authLog = <<[s |-> "pkey", f |-> 0, r |-> "raised"]>>

ExplicitKeyFailed ==
    \E i \in 1..Len(authLog) :
        authLog[i].s = "pkey" /\ authLog[i].r \in {"raised", "rc_error"}

\* C4: once the explicit-key attempt has failed, by an exception or by an
\* error result, auth has raised AuthenticationException.
C4_ExplicitKeyFailureRaises ==
    (pkey /\ handshake = "ok" /\ ExplicitKeyFailed)
        => (pc = "raised" /\ exc = "AuthenticationException")

\* C5: no pty or execute request goes to a channel that was read as closed;
\* an exec_command that found its channel closed issues its requests on, and
\* returns, a channel opened after that.
C5_StaleChannelReplaced ==
    /\ \A r \in reqs : ~r.stale
    /\ pc \in {"pty", "execute", "reexecute"} => channel \notin observedClosed
    /\ \A k \in 1..MaxExec :
        (results[k].returned /\ results[k].closedAtEntry # 0)
            => results[k].chan > results[k].closedAtEntry

C5_Witness ==
    \E k \in 1..MaxExec :
        /\ results[k].returned
        /\ results[k].closedAtEntry # 0
        /\ chans[results[k].chan].cmd = k
        /\ [op |-> "pty", stale |-> FALSE] \in reqs

\* the command of call k wrote to the error stream only
StderrOnly(k) ==
    /\ chans[results[k].chan].cmd = k
    /\ PayloadOf(k) = <<>>
    /\ chans[results[k].chan].err # <<>>

\* C6: for a command that writes to the error stream only, the returned
\* stderr sequence holds the lines of the error stream and is not empty, and
\* the drained stdout sequence is empty.
C6_StderrLines ==
    \A k \in 1..MaxExec :
        (results[k].returned /\ StderrOnly(k)) =>
            /\ results[k].stderr # <<>>
            /\ results[k].stderr = ReadStderr(chans[results[k].chan].err)
            /\ gens[k].pc = "done" => gens[k].out = <<>>

Connected == connLog # <<>> /\ connLog[Len(connLog)] = "c" /\ ~sockBlocking
AuthSucceeded == \E i \in 1..Len(authLog) : authLog[i].r = "ok"
AuthOver == pc \in {"open_channel", "ready"} \/ (pc = "raised" /\ authLog # <<>>)

\* C7: a constructor that has returned has connected, completed the
\* handshake, authenticated and holds a channel; after a failed connect,
\* handshake or authentication it has raised, and no later step has run.
C7_AllOrNothing ==
    /\ pc = "ready" =>
          Connected /\ handshake = "ok" /\ AuthSucceeded /\ channel # 0
    /\ exc = "ConnectionErrorException" =>
          pc = "raised" /\ handshake = "none" /\ authLog = <<>> /\ channel = 0
    /\ handshake = "failed" => pc = "raised" /\ authLog = <<>> /\ channel = 0
    /\ (AuthOver /\ ~AuthSucceeded) => pc = "raised" /\ channel = 0

\* C8: the value _eagain hands back to its caller never says would-block.
C8_NoWouldBlockReturned == ~IsWouldBlock(lastRet)

\* the engine accepted the command of call k on the channel the call returned
Ran(k) == results[k].returned /\ chans[results[k].chan].cmd = k

\* C9: the read_output sequence of a command that ran is exhausted only when
\* the channel the command ran on, whose exit status the caller then reads,
\* is at end-of-file.
C9_ExhaustedOnlyAtEof ==
    \A k \in 1..MaxExec :
        (Ran(k) /\ gens[k].pc = "done") => ChanEof(results[k].chan)

\* the agent attempt failed and auth went on to the identity files
AgentFailed ==
    \E i \in 1..Len(authLog) : authLog[i].s = "agent" /\ authLog[i].r = "raised"
CandidateFailed(f) ==
    \E i \in 1..Len(authLog) :
        /\ authLog[i].s = "identity"
        /\ authLog[i].f = f
        /\ authLog[i].r \in {"raised", "rc_error"}

\* C10: without an explicit key and with the agent attempt failed, auth ends
\* in AuthenticationException exactly when every existing identity file's
\* attempt failed (which is so when none exists).
C10_RaisesIffAllFailed ==
    (~pkey /\ AgentFailed /\ AuthOver /\ handshake = "ok") =>
        ((exc = "AuthenticationException") <=> \A f \in idFiles : CandidateFailed(f))
\* the attempts on identity files, which follow the agent attempt in the log
IdentityAttempts == {i \in 2..Len(authLog) : authLog[i].s = "identity"}

\* C11: without an explicit key the agent is tried first and once; identity
\* files are tried only after the agent attempt failed, in list order and
\* each existing one at most once, no existing file being passed over and
\* no missing file being tried; nothing is tried after an attempt succeeded.
C11_PriorityOrder ==
    ~pkey =>
        /\ authLog # <<>> => authLog[1].s = "agent"
        /\ AuthOver /\ handshake # "none" => authLog # <<>>
        /\ \A i \in 2..Len(authLog) : authLog[i].s = "identity"
        /\ IdentityAttempts # {} => authLog[1].r = "raised"
        /\ \A i \in IdentityAttempts :
              /\ authLog[i].f \in idFiles
              /\ \A j \in IdentityAttempts : j < i => authLog[j].f < authLog[i].f
              /\ \A f \in idFiles :
                    f < authLog[i].f => \E j \in IdentityAttempts : j < i /\ authLog[j].f = f
        /\ \A i \in 1..Len(authLog) : authLog[i].r = "ok" => i = Len(authLog)
        /\ Cardinality({i \in 1..Len(authLog) : authLog[i].r = "ok"}) <= 1

C11_Witness ==
    /\ ~pkey
    /\ idFiles = {1, 3}
    /\ pc = "ready"
    /\ authLog = <<[s |-> "agent", f |-> 0, r |-> "raised"],
                   [s |-> "identity", f |-> 1, r |-> "raised"],
                   [s |-> "identity", f |-> 3, r |-> "ok"]>>
\* the client's next step is a call of the engine through _eagain
EagainCallDue ==
    \/ pc \in {"startup", "pty", "execute", "reexecute"}
    \/ pc = "auth" /\ pkey
    \/ pc = "identity" /\ idx \in idFiles
    \/ pc = "ready" /\ \E k \in 1..MaxExec : gens[k].pc = "read"

\* C12: whenever a call of the engine through _eagain is due, the session and
\* the socket are non-blocking; in particular the session is non-blocking
\* again after the agent attempt, whatever that came to.
C12_NonBlockingEngineCalls ==
    /\ EagainCallDue => ~sessBlocking /\ ~sockBlocking
    /\ (\E i \in 1..Len(authLog) : authLog[i].s = "agent") => ~sessBlocking

\* C13: in _execute an exception of pty or of the first execute goes to one
\* reopen when it says -22 and leaves the call at once, the channel kept,
\* when it does not; the reopen is entered in no other way, gives a channel
\* that was not open before and is followed by the re-issued execute alone;
\* the re-issued execute stays on that channel, and whatever it raises
\* leaves the call with no further reopen.
C13_OneReopenAndRetry ==
    [][/\ (pc \in {"pty", "execute"} /\ lastRet'.kind = "raise") =>
            (/\ channel' = channel
             /\ IF lastRet'.v = CHANNEL_FAILURE
                THEN pc' = "reopen_22"
                ELSE pc' = "ready" /\ exc' = "EngineException")
       /\ (pc # "reopen_22" /\ pc' = "reopen_22") =>
            (pc \in {"pty", "execute"} /\ lastRet' = RaiseVal(CHANNEL_FAILURE))
       /\ (pc = "reopen_22") =>
            (/\ pc' \in {"reopen_22", "reexecute", "ready"}
             /\ (pc' = "reexecute") =>
                   (channel' # channel /\ ~chans[channel'].open /\ chans'[channel'].open)
             /\ (pc' = "ready") => (channel' = channel /\ exc' = "EngineException"))
       /\ (pc = "reexecute") =>
            (/\ pc' \in {"reexecute", "ready"}
             /\ channel' = channel
             /\ (lastRet'.kind = "raise") => (pc' = "ready" /\ exc' = "EngineException"))
      ]_vars

\* the re-issued execute has failed with -22 in its turn, and the call is over
C13_Witness ==
    /\ pc = "ready"
    /\ exc = "EngineException"
    /\ lastRet = RaiseVal(CHANNEL_FAILURE)
    /\ channel > 1
\* the payload consists of lines that each end in the line terminator
TerminatedLines(p) == p # <<>> /\ p[Len(p)] = LineSep

\* the reference: the payload split on the line terminator, each line stripped
RefLines(p) == [i \in 1..Len(SplitLines(p)) |-> Strip(SplitLines(p)[i])]

\* the generator of call k has worked through a chunk that was the whole payload
SingleReadDone(k) ==
    /\ gens[k].pc = "read"
    /\ gens[k].data = PayloadOf(k)
    /\ gens[k].size = Len(PayloadOf(k))

\* C14: once read_output has worked through a payload of terminator-ended
\* lines that arrived in one read, it has yielded the reference lines, each
\* once and in order.
C14_SingleReadLines ==
    \A k \in 1..MaxExec :
        (SingleReadDone(k) /\ TerminatedLines(PayloadOf(k)))
            => gens[k].out = RefLines(PayloadOf(k))
\* the number of bytes of p up to and including its last line terminator
LastSepEnd(p) ==
    LET hits == {i \in 1..Len(p) : p[i] = LineSep}
    IN IF hits = {} THEN 0 ELSE CHOOSE i \in hits : \A j \in hits : j <= i

\* the bytes of p that follow its last line terminator
Trailing(p) == SubSeq(p, LastSepEnd(p) + 1, Len(p))

\* C15: a read_output that ends on a stream with bytes after its last line
\* terminator has yielded the lines up to that terminator and nothing else:
\* the trailing bytes are not yielded, and they are all that is not.
C15_OnlyTrailingBytesDropped ==
    \A k \in 1..MaxExec :
        (gens[k].pc = "done" /\ results[k].chan = channel /\ Trailing(PayloadOf(k)) # <<>>)
            => gens[k].out = RefLines(SubSeq(PayloadOf(k), 1, LastSepEnd(PayloadOf(k))))
\* C16: every read_output that is consumed comes to its end and stays there,
\* issuing no read and no test of the channel afterwards, given that the
\* command's stream ends and the caller goes on consuming.
C16_ReadOutputTerminates ==
    \A k \in 1..MaxExec : (gens[k].pc # "unborn") ~> [](gens[k].pc = "done")

\* a generator that yielded lines of a payload of full length has ended
C16_Witness ==
    /\ gens[1].pc = "done"
    /\ Len(PayloadOf(1)) = MaxLen
    /\ Len(gens[1].out) >= 2
\* C17: a constructor that is past open_channel holds an open channel; each
\* round of open_channel either waits for readiness and stays in the loop
\* with no channel taken, or leaves it with a channel the engine has just
\* opened, or is left by an exception of the engine.
C17_OpenChannelNonNull ==
    /\ [](pc = "ready" => (channel # 0 /\ chans[channel].open))
    /\ [][(pc = "open_channel") =>
            \/ pc' = "open_channel" /\ sel'.waited /\ channel' = channel /\ chans' = chans
            \/ /\ pc' = "ready"
               /\ channel' # 0
               /\ ~chans[channel'].open
               /\ chans'[channel'].open
            \/ pc' = "raised" /\ exc' = "EngineException" /\ channel' = channel
         ]_vars

\* open_channel has got None, has waited on both directions and is to ask again
C17_Witness ==
    /\ pc = "open_channel"
    /\ channel = 0
    /\ sel = WaitSelect(3)
\* the block directions of libssh2: inbound is bit 0, outbound is bit 1
DirNone == sel.dir = 0
DirRead == sel.dir \in {1, 3}
DirWrite == sel.dir \in {2, 3}

\* C18: _wait_select calls select() only when the session reports a block
\* direction, and then with the socket among the read descriptors exactly
\* when inbound is reported and among the write descriptors exactly when
\* outbound is; a client step without _wait_select calls no select().
C18_WaitsOnReportedDirections ==
    /\ sel.called => sel.waited
    /\ sel.waited =>
          /\ sel.called <=> ~DirNone
          /\ sel.r <=> DirRead
          /\ sel.w <=> DirWrite

\* startup was answered would-block with no direction reported: _wait_select
\* returned without select(), and startup is to be called again
C18_Witness ==
    /\ pc = "startup"
    /\ sel.waited
    /\ DirNone
    /\ ~sel.called
\* this step is the normal return of the running exec_command call, its
\* command accepted by the engine on the channel the call returns
ReturnsHavingRun ==
    /\ nExec > 0
    /\ ~results[nExec].returned
    /\ results'[nExec].returned
    /\ chans'[results'[nExec].chan].cmd = nExec

\* C19: when an exec_command with use_pty returns with its command running,
\* a pty has been requested on the channel the command runs on.
C19_PtyOnExecutingChannel ==
    [][(ReturnsHavingRun /\ cur.use_pty) => chans'[results'[nExec].chan].pty]_vars
\* this step is one of the generator that exec_command call k returned: a
\* test of channel.eof(), a read, or the scan between two yields
GenSteps(k) == Ran(k) /\ gens'[k] # gens[k]

\* C20: every step of the read_output generator of a call tests and reads
\* the channel on which the call's command was executed.
C20_ReadsOwnChannel ==
    [][\A k \in 1..MaxExec : GenSteps(k) => channel = results[k].chan]_vars
====
